---- MODULE Spec2Model ----
(***************************************************************************)
(* Model of the FastAPI-contacts data-access layer: the contacts and users *)
(* tables (src/database/models.py) and the repository functions over them  *)
(* (src/repository/contacts.py, src/repository/users.py).                  *)
(*                                                                         *)
(* A table is the set of its rows; an optional value (a nullable column,   *)
(* the result of Query.first()) is a sequence of length 0 (None) or 1.     *)
(* Text columns that the code examines character by character (ILIKE) are  *)
(* sequences of one-character strings.                                     *)
(***************************************************************************)
EXTENDS Integers, Sequences, FiniteSets, TLC

VARIABLES contacts, users, today, last, sessions

vars == <<contacts, users, today, last, sessions>>

None == <<>>

Some(v) == <<v>>

(***************************************************************************)
(* Bounds of the model.                                                    *)
(***************************************************************************)
MaxId == 2

MaxSkip == 1

MaxLen == 2

Owners == {1, 2}

ContactIds == 1 .. MaxId

\* ids a request may name: every stored id and one that is never stored
RequestIds == 1 .. (MaxId + 1)

(***************************************************************************)
(* Calendar dates: datetime.date and timedelta(days = n).                  *)
(***************************************************************************)
Date(y, m, d) == [year |-> y, month |-> m, day |-> d]

IsLeap(y) == (y % 4 = 0 /\ y % 100 # 0) \/ y % 400 = 0

DaysInMonth(y, m) ==
    IF m = 2 THEN (IF IsLeap(y) THEN 29 ELSE 28)
    ELSE IF m \in {4, 6, 9, 11} THEN 30 ELSE 31

NextDay(dt) ==
    IF dt.day < DaysInMonth(dt.year, dt.month) THEN Date(dt.year, dt.month, dt.day + 1)
    ELSE IF dt.month < 12 THEN Date(dt.year, dt.month + 1, 1)
    ELSE Date(dt.year + 1, 1, 1)

RECURSIVE AddDays(_, _)
AddDays(dt, n) == IF n = 0 THEN dt ELSE AddDays(NextDay(dt), n - 1)

(***************************************************************************)
(* Text: str.lower and the SQL operator ILIKE.                             *)
(***************************************************************************)
LowerChar(c) ==
    CASE c = "A" -> "a"
      [] c = "B" -> "b"
      [] c = "S" -> "s"
      [] OTHER -> c

Lower(s) == [i \in 1 .. Len(s) |-> LowerChar(s[i])]

\* s LIKE p: in the pattern % stands for any run of characters and _ for any
\* one character; every other character stands for itself.
RECURSIVE Like(_, _)
Like(s, p) ==
    IF p = <<>> THEN s = <<>>
    ELSE IF Head(p) = "%" THEN Like(s, Tail(p)) \/ (s # <<>> /\ Like(Tail(s), p))
    ELSE /\ s # <<>>
         /\ (Head(p) = "_" \/ Head(p) = Head(s))
         /\ Like(Tail(s), Tail(p))

ILike(s, p) == Like(Lower(s), Lower(p))

\* the f-string f"%{query}%"
Pattern(query) == <<"%">> \o query \o <<"%">>

(***************************************************************************)
(* Query results.                                                          *)
(***************************************************************************)
MinId(rows) == CHOOSE r \in rows : \A o \in rows : r.id <= o.id

\* Query.all(): the rows in primary-key order
RECURSIVE All(_)
All(rows) ==
    IF rows = {} THEN <<>>
    ELSE LET r == MinId(rows) IN <<r>> \o All(rows \ {r})

\* Query.first()
First(rows) == IF rows = {} THEN None ELSE Some(MinId(rows))

\* Query.offset(skip).limit(limit).all()
OffsetLimit(seq, skip, limit) ==
    SubSeq(seq, skip + 1, IF Len(seq) < skip + limit THEN Len(seq) ELSE skip + limit)

Range(seq) == {seq[i] : i \in 1 .. Len(seq)}

(***************************************************************************)
(* Rows of the contacts table (class Contacts) and request bodies          *)
(* (class ContactsModel).                                                  *)
(***************************************************************************)
\* the columns declared nullable=False besides the primary key
NotNullColumns == {"first_name", "last_name", "phone_number", "born_date", "email", "created_at"}

\* columns typed so that a nullable value is an optional value in the model
OptionalColumns == {"description", "created_at"}

ContactsModel(fn, ln, em, ph, bd) ==
    [first_name |-> fn, last_name |-> ln, email |-> em, phone_number |-> ph, born_date |-> bd]

\* Contacts(**body.dict(), user_id=user.id): the attributes the constructor is
\* given; description and created_at are given nothing and stay None, done
\* takes the column default False when the row is inserted.
Contacts(body, user_id) ==
    [first_name |-> body.first_name, last_name |-> body.last_name,
     phone_number |-> body.phone_number, born_date |-> body.born_date,
     email |-> body.email, description |-> None, created_at |-> None,
     done |-> FALSE, user_id |-> user_id]

\* the outcome of a repository call: the table after it, what it returns
\* (a sequence of rows; None or Some(row) for a single object) and the
\* exception it raises ("" when it returns normally)
Outcome(db, ret, err) == [db |-> db, ret |-> ret, err |-> err]

(***************************************************************************)
(* Session.commit(): the statements the unit of work sends.                *)
(***************************************************************************)
NextId(table) ==
    IF table = {} THEN 1
    ELSE 1 + (CHOOSE i \in {r.id : r \in table} : \A r \in table : r.id <= i)

\* INSERT of a pending object: a NOT NULL column that was given no value and
\* has no default makes the statement fail (the body always supplies the other
\* NOT NULL columns, so only the optional-valued ones can be None)
ViolatesNotNull(obj) == \E c \in NotNullColumns \cap OptionalColumns : obj[c] = None

Insert(table, obj) == table \cup {[id |-> NextId(table)] @@ obj}

\* phone_number is assigned a str where the Integer column loaded an int, and
\* born_date a date where the String column loaded a str: an assigned value
\* of these two never compares equal to the loaded one
RetypedColumns == {"phone_number", "born_date"}

\* the attributes of a loaded object with a net change: the assigned ones
\* whose value differs from the value loaded
Dirty(loaded, assigned) ==
    {c \in DOMAIN assigned : c \in RetypedColumns \/ assigned[c] # loaded[c]}

\* UPDATE contacts SET <the dirty columns> WHERE id = <the loaded row's id>
Update(table, loaded, assigned) ==
    {IF r.id = loaded.id
       THEN [c \in DOMAIN r |-> IF c \in Dirty(loaded, assigned) THEN assigned[c] ELSE r[c]]
       ELSE r : r \in table}

\* DELETE FROM contacts WHERE id = <the loaded row's id>
Delete(table, loaded) == {r \in table : r.id # loaded.id}

\* reading the returned object after the commit reloads its row
Refresh(table, id) == First({r \in table : r.id = id})

(***************************************************************************)
(* src/repository/contacts.py                                              *)
(***************************************************************************)
OwnedBy(table, user) == {c \in table : c.user_id = user}

get_contacts(skip, limit, user, table) ==
    OffsetLimit(All(OwnedBy(table, user)), skip, limit)

\* get_contact as it would be without the ownership filter
get_contact_any_owner(contact_id, user, table) ==
    First({c \in table : c.id = contact_id})

get_contact(contact_id, user, table) ==
    First({c \in table : c.id = contact_id /\ c.user_id = user})

create_contact(body, user, table) ==
    LET contact == Contacts(body, user)
    IN  IF ViolatesNotNull(contact)
          THEN Outcome(table, None, "IntegrityError")
          ELSE LET db == Insert(table, contact)
               IN  Outcome(db, Refresh(db, NextId(table)), "")

\* the attributes update_contact assigns to the loaded contact
Assigned(body) ==
    [first_name |-> body.first_name, last_name |-> body.last_name, email |-> body.email,
     phone_number |-> body.phone_number, born_date |-> body.born_date]

\* update_contact as it would be looking the contact up by id alone
update_contact_any_owner(contact_id, body, user, table) ==
    LET contact == First({c \in table : c.id = contact_id})
    IN  IF contact # None
          THEN LET db == Update(table, contact[1], Assigned(body))
               IN  Outcome(db, Refresh(db, contact_id), "")
          ELSE Outcome(table, None, "")

\* update_contact as it would be if it also reset done
update_contact_and_done(contact_id, body, user, table) ==
    LET contact == First({c \in table : c.id = contact_id /\ c.user_id = user})
    IN  IF contact # None
          THEN LET db == Update(table, contact[1],
                                [first_name |-> body.first_name, last_name |-> body.last_name,
                                 email |-> body.email, phone_number |-> body.phone_number,
                                 born_date |-> body.born_date, done |-> FALSE])
               IN  Outcome(db, Refresh(db, contact_id), "")
          ELSE Outcome(table, None, "")

update_contact(contact_id, body, user, table) ==
    LET contact == get_contact(contact_id, user, table)
    IN  IF contact # None
          THEN LET db == Update(table, contact[1], Assigned(body))
               IN  Outcome(db, Refresh(db, contact_id), "")
          ELSE Outcome(table, None, "")

\* remove_contact as it would be looking the contact up by id alone
remove_contact_any_owner(contact_id, user, table) ==
    LET contact == First({c \in table : c.id = contact_id})
    IN  IF contact # None
          THEN Outcome(Delete(table, contact[1]), contact, "")
          ELSE Outcome(table, None, "")

\* remove_contact as it would be without the db.delete(contact)
remove_contact_no_delete(contact_id, user, table) ==
    Outcome(table, First({c \in table : c.id = contact_id /\ c.user_id = user}), "")

remove_contact(contact_id, user, table) ==
    LET contact == get_contact(contact_id, user, table)
    IN  IF contact # None
          THEN Outcome(Delete(table, contact[1]), contact, "")
          ELSE Outcome(table, None, "")

\* update_status_contact as it would be if it also reset the description
update_status_contact_and_description(contact_id, done, user, table) ==
    LET contact == First({c \in table : c.id = contact_id /\ c.user_id = user})
    IN  IF contact # None
          THEN LET db == Update(table, contact[1], [done |-> done, description |-> None])
               IN  Outcome(db, Refresh(db, contact_id), "")
          ELSE Outcome(table, None, "")

update_status_contact(contact_id, done, user, table) ==
    LET contact == get_contact(contact_id, user, table)
    IN  IF contact # None
          THEN LET db == Update(table, contact[1], [done |-> done])
               IN  Outcome(db, Refresh(db, contact_id), "")
          ELSE Outcome(table, None, "")

search_contacts(table, query, user) ==
    IF query = <<>> THEN <<>>
    ELSE All({c \in OwnedBy(table, user) :
                \/ ILike(c.first_name, Pattern(query))
                \/ ILike(c.last_name, Pattern(query))
                \/ ILike(c.email, Pattern(query))})

get_contacts_with_birthdays(table, user, day) ==
    LET next_week == AddDays(day, 7)
    IN  All({c \in OwnedBy(table, user) :
               /\ c.born_date.month = day.month
               /\ c.born_date.day >= day.day
               /\ c.born_date.day <= next_week.day})

(***************************************************************************)
(* The values requests carry and the tables a run starts from.  The tables *)
(* persist across runs of the service: a run starts from any table that    *)
(* satisfies the schema (distinct primary keys, NOT NULL columns set).     *)
(***************************************************************************)
Bodies ==
    {ContactsModel(<<"A", "n">>, <<"S", "m">>, <<"a", "@", "x">>, 111, Date(1990, 3, 12)),
     ContactsModel(<<"b", "o">>, <<"B", "_">>, <<"b", "@", "y">>, 222, Date(1985, 3, 25))}

Queries == {<<>>, <<"s", "M">>, <<"@">>}

Limits == {1, 100}

SeedCreated == Date(2024, 1, 5)

SeedToday == Date(2024, 3, 10)

\* the API never writes description: a row's description is what it was seeded with
SeedDescription(id) == IF id % 2 = 1 THEN Some("met at work") ELSE None

Row(id, body, description, done, user_id) ==
    [id |-> id, first_name |-> body.first_name, last_name |-> body.last_name,
     phone_number |-> body.phone_number, born_date |-> body.born_date,
     email |-> body.email, description |-> description,
     created_at |-> Some(SeedCreated), done |-> done, user_id |-> user_id]

SeedRows(id, bodies, owners, dones) ==
    {Row(id, b, SeedDescription(id), dn, u) : b \in bodies, dn \in dones, u \in owners}

\* every table holding, for each id, no row or one seed row
SeedTables(bodies, owners, dones) ==
    LET Slots == {{}} \cup {{r} : r \in UNION {SeedRows(i, bodies, owners, dones) : i \in ContactIds}}
    IN  {UNION {slot[i] : i \in ContactIds} :
           slot \in {f \in [ContactIds -> Slots] : \A i \in ContactIds : \A r \in f[i] : r.id = i}}

UserRow(id, email, confirmed, avatar, refresh_token) ==
    [id |-> id, email |-> email, confirmed |-> confirmed, avatar |-> avatar,
     refresh_token |-> refresh_token]

SeedUsers == {UserRow(1, <<"u", "@", "x">>, TRUE, None, None),
              UserRow(2, <<"v", "@", "x">>, TRUE, None, None)}

(***************************************************************************)
(* The log of the last call: its arguments and its outcome.  again tells   *)
(* that the call repeats, with the same arguments, a remove_contact call   *)
(* made just before it that returned a row.                                *)
(***************************************************************************)
Call(op, user, id, body, done, query, skip, limit, out) ==
    [op |-> op, user |-> user, id |-> id, body |-> body, done |-> done,
     query |-> query, skip |-> skip, limit |-> limit, ret |-> out.ret, err |-> out.err,
     again |-> /\ op = "remove_contact"
               /\ last.op = op /\ last.user = user /\ last.id = id /\ last.ret # None]

NoCall ==
    [op |-> "none", user |-> 0, id |-> 0, body |-> None, done |-> None, query |-> None,
     skip |-> 0, limit |-> 0, ret |-> None, err |-> "", again |-> FALSE]

Idle == [pc |-> "idle", user |-> 0, id |-> 0, body |-> None, loaded |-> None]

Procs == {1, 2}

(***************************************************************************)
(* One action per repository call on the contacts table; each call runs    *)
(* to its commit without another call in between.                          *)
(***************************************************************************)
GetContacts ==
    \E user \in Owners, skip \in 0 .. MaxSkip, limit \in Limits :
       /\ last' = Call("get_contacts", user, 0, None, None, None, skip, limit,
                       Outcome(contacts, get_contacts(skip, limit, user, contacts), ""))
       /\ UNCHANGED <<contacts, users, today, sessions>>

GetContact ==
    \E user \in Owners, id \in RequestIds :
       /\ last' = Call("get_contact", user, id, None, None, None, 0, 0,
                       Outcome(contacts, get_contact(id, user, contacts), ""))
       /\ UNCHANGED <<contacts, users, today, sessions>>

CreateContact(bodies) ==
    \E user \in Owners, body \in bodies :
       LET out == create_contact(body, user, contacts)
       IN  /\ contacts' = out.db
           /\ last' = Call("create_contact", user, 0, Some(body), None, None, 0, 0, out)
           /\ UNCHANGED <<users, today, sessions>>

UpdateContact(bodies) ==
    \E user \in Owners, id \in RequestIds, body \in bodies :
       LET out == update_contact(id, body, user, contacts)
       IN  /\ contacts' = out.db
           /\ last' = Call("update_contact", user, id, Some(body), None, None, 0, 0, out)
           /\ UNCHANGED <<users, today, sessions>>

RemoveContact ==
    \E user \in Owners, id \in RequestIds :
       LET out == remove_contact(id, user, contacts)
       IN  /\ contacts' = out.db
           /\ last' = Call("remove_contact", user, id, None, None, None, 0, 0, out)
           /\ UNCHANGED <<users, today, sessions>>

UpdateStatusContact ==
    \E user \in Owners, id \in RequestIds, done \in BOOLEAN :
       LET out == update_status_contact(id, done, user, contacts)
       IN  /\ contacts' = out.db
           /\ last' = Call("update_status_contact", user, id, None, Some(done), None, 0, 0, out)
           /\ UNCHANGED <<users, today, sessions>>

SearchContacts(queries) ==
    \E user \in Owners, query \in queries :
       /\ last' = Call("search_contacts", user, 0, None, None, Some(query), 0, 0,
                       Outcome(contacts, search_contacts(contacts, query, user), ""))
       /\ UNCHANGED <<contacts, users, today, sessions>>

GetContactsWithBirthdays ==
    \E user \in Owners :
       /\ last' = Call("get_contacts_with_birthdays", user, 0, None, None, None, 0, 0,
                       Outcome(contacts, get_contacts_with_birthdays(contacts, user, today), ""))
       /\ UNCHANGED <<contacts, users, today, sessions>>

Init ==
    /\ contacts \in SeedTables(Bodies, Owners, BOOLEAN)
    /\ users = SeedUsers
    /\ today = SeedToday
    /\ last = NoCall
    /\ sessions = [p \in Procs |-> Idle]

Next ==
    \/ GetContacts
    \/ GetContact
    \/ CreateContact(Bodies)
    \/ UpdateContact(Bodies)
    \/ RemoveContact
    \/ UpdateStatusContact
    \/ SearchContacts(Queries)
    \/ GetContactsWithBirthdays

Spec == Init /\ [][Next]_vars

(***************************************************************************)
(* Properties of the contacts repository, checked under Spec.              *)
(***************************************************************************)
ReadOps == {"get_contacts", "get_contact", "search_contacts", "get_contacts_with_birthdays"}

Matching(table, id, user) == {c \in table : c.id = id /\ c.user_id = user}

\* C1: a contact of owner A is never returned to another owner B: get_contact
\* (B, c.id) is None, and get_contacts, search_contacts and
\* get_contacts_with_birthdays of B never contain c; every row a read call
\* returns belongs to the caller.
OwnerIsolation ==
    /\ \A c \in contacts : \A B \in Owners \ {c.user_id} :
          /\ get_contact(c.id, B, contacts) = None
          /\ \A skip \in 0 .. MaxSkip, limit \in Limits :
                c \notin Range(get_contacts(skip, limit, B, contacts))
          /\ \A query \in Queries : c \notin Range(search_contacts(contacts, query, B))
          /\ c \notin Range(get_contacts_with_birthdays(contacts, B, today))
    /\ last.op \in ReadOps => \A r \in Range(last.ret) : r.user_id = last.user

\* B asked for the id of a stored contact of A and got None, while A's own
\* reads return the contact
OwnerIsolationWitness ==
    /\ last.op = "get_contact" /\ last.ret = None
    /\ \E c \in contacts :
          /\ c.id = last.id /\ c.user_id # last.user
          /\ get_contact(c.id, c.user_id, contacts) = Some(c)
          /\ c \in Range(get_contacts_with_birthdays(contacts, c.user_id, today))
          /\ c \in Range(search_contacts(contacts, <<"@">>, c.user_id))

\* C2: no call of owner B changes or removes a contact of another owner A:
\* every contact of A is stored unchanged after the call.
NoCrossOwnerEffect ==
    [][\A c \in contacts : c.user_id # last'.user => c \in contacts']_vars

\* B named the id of A's contact in a remove_contact call and A's contact is
\* still stored
NoCrossOwnerEffectWitness ==
    /\ last.op = "remove_contact"
    /\ \E c \in contacts : c.id = last.id /\ c.user_id # last.user

\* C3: create_contact persists a new contact of the caller with created_at
\* the current time and done false and returns it with its id; get_contact
\* then returns a row with the body's fields.
CreatePersists ==
    last.op = "create_contact" =>
       /\ last.err = ""
       /\ Len(last.ret) = 1
       /\ last.ret[1] \in contacts
       /\ last.ret[1].user_id = last.user
       /\ last.ret[1].created_at = Some(today)
       /\ last.ret[1].done = FALSE
       /\ get_contact(last.ret[1].id, last.user, contacts) = last.ret
       /\ \A f \in DOMAIN last.body[1] : last.ret[1][f] = last.body[1][f]

\* C4: update_contact for which no stored contact has both the id and the
\* owner returns None and leaves the whole table unchanged.
UpdateMissIsNoOp ==
    [][(last'.op = "update_contact" /\ Matching(contacts, last'.id, last'.user) = {})
          => (last'.ret = None /\ last'.err = "" /\ contacts' = contacts)]_vars

\* an update_contact call named the id of another owner's contact
UpdateMissIsNoOpWitness ==
    /\ last.op = "update_contact" /\ last.ret = None
    /\ \E c \in contacts :
          c.id = last.id /\ c.user_id # last.user /\ c.first_name # last.body[1].first_name

\* C5: update_status_contact on a contact of the caller sets done to the given
\* value and changes no other field of that row and no other row.
StatusUpdateFrame ==
    [][last'.op = "update_status_contact" =>
          \A c \in Matching(contacts, last'.id, last'.user) :
             /\ contacts' = (contacts \ {c}) \cup {[c EXCEPT !.done = last'.done[1]]}
             /\ last'.ret = Some([c EXCEPT !.done = last'.done[1]])]_vars

\* the call set done on a row with a description while another row is stored
StatusUpdateFrameWitness ==
    /\ last.op = "update_status_contact" /\ last.ret # None
    /\ last.ret[1].done = last.done[1]
    /\ last.ret[1].description # None
    /\ last.ret[1] \in contacts
    /\ \E c \in contacts : c.id # last.id

\* the row c with the five fields of a request body written over its own
Overwritten(c, body) ==
    [c EXCEPT !.first_name = body.first_name, !.last_name = body.last_name,
              !.email = body.email, !.phone_number = body.phone_number,
              !.born_date = body.born_date]

RemoveTwice ==
    [][last'.op = "remove_contact" =>
          /\ \A c \in Matching(contacts, last'.id, last'.user) :
                /\ last'.ret = Some(c)
                /\ contacts' = contacts \ {c}
                /\ get_contact(c.id, c.user_id, contacts') = None
                /\ \A skip \in 0 .. MaxSkip, limit \in Limits :
                      c \notin Range(get_contacts(skip, limit, c.user_id, contacts'))
                /\ \A query \in Queries :
                      c \notin Range(search_contacts(contacts', query, c.user_id))
          /\ (/\ last.op = "remove_contact" /\ last.ret # None
              /\ last.user = last'.user /\ last.id = last'.id)
                => (last'.ret = None /\ contacts' = contacts)]_vars

\* the second of two remove_contact calls with the same arguments returned None
RemoveTwiceWitness ==
    last.op = "remove_contact" /\ last.again /\ last.ret = None

(***************************************************************************)
(* The birthday query on every day of the calendar: a run starts on any    *)
(* day of the years modelled, and date.today() returns that day.           *)
(***************************************************************************)
Years == {2023, 2024}

Days == {dt \in {Date(y, m, d) : y \in Years, m \in 1 .. 12, d \in 1 .. 31} :
           dt.day <= DaysInMonth(dt.year, dt.month)}

BirthdayBodies ==
    {ContactsModel(<<"A", "n">>, <<"S", "m">>, <<"a", "@", "x">>, 111, Date(1990, 1, 30)),
     ContactsModel(<<"b", "o">>, <<"B", "_">>, <<"b", "@", "y">>, 222, Date(1992, 3, 12)),
     ContactsModel(<<"a", "b">>, <<"s">>, <<"s", "@", "x">>, 333, Date(1985, 12, 5))}

InitBirthdays ==
    /\ contacts \in SeedTables(BirthdayBodies, Owners, {FALSE})
    /\ users = SeedUsers
    /\ today \in Days
    /\ last = NoCall
    /\ sessions = [p \in Procs |-> Idle]

NextBirthdays == GetContactsWithBirthdays

SpecBirthdays == InitBirthdays /\ [][NextBirthdays]_vars

\* C7: on every day, get_contacts_with_birthdays returns exactly the caller's
\* contacts born in the current month on a day d of the month with
\* today's day <= d <= today's day + 7.
BirthdaysInWindow ==
    last.op = "get_contacts_with_birthdays" =>
       Range(last.ret) =
          {c \in contacts :
             /\ c.user_id = last.user
             /\ c.born_date.month = today.month
             /\ today.day <= c.born_date.day
             /\ c.born_date.day <= today.day + 7}

(***************************************************************************)
(* The search over names that hold and queries that are any text of up to  *)
(* MaxLen characters.                                                      *)
(***************************************************************************)
Alphabet == {"a", "A", "b", "_", "%"}

RECURSIVE Texts(_)
Texts(n) ==
    IF n = 0 THEN {<<>>}
    ELSE LET shorter == Texts(n - 1)
         IN  shorter \cup {<<ch>> \o t : ch \in Alphabet, t \in {u \in shorter : Len(u) = n - 1}}

SearchBodies ==
    {ContactsModel(fn, ln, <<"b", "@">>, 111, Date(1990, 3, 12)) :
       fn \in {<<"A", "b">>, <<"b">>}, ln \in {<<"a">>, <<"_", "a">>}}

InitSearch ==
    /\ contacts \in SeedTables(SearchBodies, Owners, {FALSE})
    /\ users = SeedUsers
    /\ today = SeedToday
    /\ last = NoCall
    /\ sessions = [p \in Procs |-> Idle]

NextSearch == SearchContacts(Texts(MaxLen))

SpecSearch == InitSearch /\ [][NextSearch]_vars

\* s holds q as a run of consecutive characters
Contains(s, q) == \E i \in 0 .. (Len(s) - Len(q)) : SubSeq(s, i + 1, i + Len(q)) = q

\* C10: search_contacts returns the empty sequence for an empty query, and
\* for any other query exactly the caller's contacts whose first_name,
\* last_name or email holds the query as a substring, letter case ignored.
SearchIsSubstringMatch ==
    last.op = "search_contacts" =>
       IF last.query[1] = <<>> THEN last.ret = <<>>
       ELSE Range(last.ret) =
               {c \in contacts :
                  /\ c.user_id = last.user
                  /\ \/ Contains(Lower(c.first_name), Lower(last.query[1]))
                     \/ Contains(Lower(c.last_name), Lower(last.query[1]))
                     \/ Contains(Lower(c.email), Lower(last.query[1]))}

(***************************************************************************)
(* Two update_contact calls in flight at once, each in its own session:    *)
(* the query that loads the contact and the commit that writes it are      *)
(* separate steps, and a get_contact call may run at any point.            *)
(***************************************************************************)
ConcurrentOwners == {1}

ConcurrentBodies ==
    {ContactsModel(fn, ln, <<"a", "@", "x">>, 111, Date(1990, 3, 12)) :
       fn \in {<<"A", "n">>, <<"b", "o">>}, ln \in {<<"S", "m">>, <<"B", "_">>}}

\* contacts.py:68-69: the session loads the contact
Query(p) ==
    /\ sessions[p].pc = "idle"
    /\ \E user \in ConcurrentOwners, id \in ContactIds, body \in ConcurrentBodies :
          sessions' = [sessions EXCEPT ![p] =
                          [pc |-> "loaded", user |-> user, id |-> id, body |-> Some(body),
                           loaded |-> get_contact(id, user, contacts)]]
    /\ UNCHANGED <<contacts, users, today, last>>

\* contacts.py:70-77: the assignments to the loaded contact and the commit
Commit(p) ==
    /\ sessions[p].pc = "loaded"
    /\ LET s == sessions[p]
           db == IF s.loaded # None
                   THEN Update(contacts, s.loaded[1], Assigned(s.body[1]))
                   ELSE contacts
           ret == IF s.loaded # None THEN Refresh(db, s.id) ELSE None
       IN  /\ contacts' = db
           /\ last' = Call("update_contact", s.user, s.id, s.body, None, None, 0, 0,
                           Outcome(db, ret, ""))
    /\ sessions' = [sessions EXCEPT ![p].pc = "returned"]
    /\ UNCHANGED <<users, today>>

InitConcurrent ==
    /\ contacts \in SeedTables(ConcurrentBodies, ConcurrentOwners, {FALSE})
    /\ users = SeedUsers
    /\ today = SeedToday
    /\ last = NoCall
    /\ sessions = [p \in Procs |-> Idle]

NextConcurrent ==
    \/ \E p \in Procs : Query(p)
    \/ \E p \in Procs : Commit(p)
    \/ GetContact

SpecConcurrent == InitConcurrent /\ [][NextConcurrent]_vars

\* C8: when two update_contact calls of one owner on one contact have both
\* returned, whatever the order of their queries and commits, the stored
\* first_name, last_name, email, phone_number and born_date are all those of
\* one single call, never some of one call and some of the other.
LastWriterWins ==
    (/\ \A p \in Procs : sessions[p].pc = "returned" /\ sessions[p].loaded # None
     /\ \A p, q \in Procs : sessions[p].id = sessions[q].id /\ sessions[p].user = sessions[q].user)
       => \A c \in contacts :
             (\E p \in Procs : c.id = sessions[p].id /\ c.user_id = sessions[p].user)
                => \E p \in Procs :
                      \A f \in DOMAIN Assigned(sessions[p].body[1]) :
                         c[f] = sessions[p].body[1][f]

(***************************************************************************)
(* src/repository/users.py                                                 *)
(***************************************************************************)
UserEmails == {<<"u", "@", "x">>, <<"v", "@", "x">>}

\* an address no user registers with
UnknownEmail == <<"w", "@", "x">>

Tokens == {None, Some("refresh")}

AvatarUrls == {Some("cdn")}

\* what Gravatar(body.email).get_image() gives: a URL, or None when it raises
GravatarOutcomes == {None, Some("gravatar")}

get_user_by_email(email, table) == First({u \in table : u.email = email})

\* unique=True on users.email
ViolatesUnique(table, user) == \E u \in table : u.email = user.email

create_user(body, avatar, table) ==
    LET new_user == [email |-> body.email, confirmed |-> FALSE, avatar |-> avatar,
                     refresh_token |-> None]
    IN  IF ViolatesUnique(table, new_user)
          THEN Outcome(table, None, "IntegrityError")
          ELSE LET db == Insert(table, new_user)
               IN  Outcome(db, Refresh(db, NextId(table)), "")

update_token(user, token, table) ==
    Outcome({IF u.id = user.id THEN [u EXCEPT !.refresh_token = token] ELSE u : u \in table},
            None, "")

confirmed_email(email, table) ==
    LET user == get_user_by_email(email, table)
    IN  IF user = None
          THEN Outcome(table, None, "AttributeError")
          ELSE Outcome({IF u.id = user[1].id THEN [u EXCEPT !.confirmed = TRUE] ELSE u :
                          u \in table},
                       None, "")

update_avatar(email, url, table) ==
    LET user == get_user_by_email(email, table)
    IN  IF user = None
          THEN Outcome(table, None, "AttributeError")
          ELSE LET db == {IF u.id = user[1].id THEN [u EXCEPT !.avatar = url] ELSE u :
                            u \in table}
               IN  Outcome(db, Refresh(db, user[1].id), "")

UserCall(op, email, arg, out) ==
    [op |-> op, email |-> email, arg |-> arg, ret |-> out.ret, err |-> out.err]

NoUserCall == UserCall("none", <<>>, None, Outcome({}, None, ""))

GetUserByEmail ==
    \E email \in UserEmails \cup {UnknownEmail} :
       /\ last' = UserCall("get_user_by_email", email, None,
                           Outcome(users, get_user_by_email(email, users), ""))
       /\ UNCHANGED <<contacts, users, today, sessions>>

CreateUser ==
    \E email \in UserEmails, avatar \in GravatarOutcomes :
       LET out == create_user([email |-> email], avatar, users)
       IN  /\ users' = out.db
           /\ last' = UserCall("create_user", email, None, out)
           /\ UNCHANGED <<contacts, today, sessions>>

UpdateToken ==
    \E user \in users, token \in Tokens :
       LET out == update_token(user, token, users)
       IN  /\ users' = out.db
           /\ last' = UserCall("update_token", user.email, token, out)
           /\ UNCHANGED <<contacts, today, sessions>>

ConfirmedEmail ==
    \E email \in UserEmails \cup {UnknownEmail} :
       LET out == confirmed_email(email, users)
       IN  /\ users' = out.db
           /\ last' = UserCall("confirmed_email", email, None, out)
           /\ UNCHANGED <<contacts, today, sessions>>

UpdateAvatar ==
    \E email \in UserEmails \cup {UnknownEmail}, url \in AvatarUrls :
       LET out == update_avatar(email, url, users)
       IN  /\ users' = out.db
           /\ last' = UserCall("update_avatar", email, url, out)
           /\ UNCHANGED <<contacts, today, sessions>>

InitUsers ==
    /\ contacts = {}
    /\ users = {}
    /\ today = SeedToday
    /\ last = NoUserCall
    /\ sessions = [p \in Procs |-> Idle]

NextUsers ==
    \/ GetUserByEmail
    \/ CreateUser
    \/ UpdateToken
    \/ ConfirmedEmail
    \/ UpdateAvatar

SpecUsers == InitUsers /\ [][NextUsers]_vars

\* the errors of the NotFound class
NotFoundErrors == {"NotFound"}

\* C9: confirmed_email for an address no user has fails with an error of the
\* NotFound class and leaves every user's confirmed flag unchanged; for the
\* address of a user it sets that user's confirmed flag and changes no other
\* user.
ConfirmEmailOrNotFound ==
    [][last'.op = "confirmed_email" =>
          LET hit == {u \in users : u.email = last'.email}
          IN  IF hit = {}
                THEN last'.err \in NotFoundErrors /\ users' = users
                ELSE /\ last'.err = ""
                     /\ users' = {IF u \in hit THEN [u EXCEPT !.confirmed = TRUE] ELSE u :
                                    u \in users}]_vars

====
